---------------------------- MODULE Spec2Model ----------------------------
(*************************************************************************)
(* Model of the RealTimeTrading engine                                   *)
(* (backend/real_time_trading/real_time_trading.py, utils.py).           *)
(*                                                                       *)
(* One message of the raw-ticker topic is consumed per Consume step:     *)
(* window filter, NaN filter, universe filter, IntradayTicker.update,    *)
(* and, when the update reports a change, _check_top_symbols, which      *)
(* ranks the tickers and sends the top / bottom snapshots that differ    *)
(* from the stored ones.  An exception leaves consume(); Reenter is the  *)
(* caller calling consume() again on the same engine object.             *)
(*                                                                       *)
(* Time is counted in minutes; a calendar day has DayLen minutes.        *)
(* Prices are small integers; NaN and a missing (None) price are the     *)
(* two negative sentinels.                                               *)
(*************************************************************************)
EXTENDS Integers, Sequences, FiniteSets, TLC

\* ------------------------------------------------------------- bounds

\* prices are 0..MaxPrice
MaxPrice == 4
\* event times are 0..MaxTime
MaxTime == 4
\* bake-in / bake-out minutes are 0..MaxBake
MaxBake == 2
\* n_top_tickers / n_bottom_tickers are 1..MaxN
MaxN == 2
\* the event times of the feed of SpecWindow are 0..MaxWindowTime
MaxWindowTime == 11
\* at most MaxFaults producer sends raise in one run
MaxFaults == 1
\* the timestamps of the events of a partition are 0..MaxStamp
MaxStamp == 2
\* a partition holds at most MaxLog events
MaxLog == 2

\* ------------------------------------------------- values and inputs

\* float("nan"), the "no trade yet" price
NaN == -1
\* a last price that is missing (None) rather than a float
NoneLast == -2
\* the reference price the gap is measured from
RefPrice == 2
\* minutes per calendar day (the date of a time is its day number)
DayLen == 4
\* the session open / close of a session day, in minutes from its start
OpenMinute == 1
CloseMinute == 4

\* a symbol that is never a key of self.tickers
Untracked == "Z"

Prices == 0..MaxPrice
Times == 0..MaxTime

\* Optional[TopNSymbols]: None, or the (symbol, gap) pairs of a snapshot
None == [isNone |-> TRUE, symbols |-> <<>>]

VARIABLES
    contracts,          \* the contracts __init__ was given, in order
    tickers,            \* self.tickers: symbol -> IntradayTicker (last, gap)
    top_n_symbols,      \* self.top_n_symbols
    bottom_n_symbols,   \* self.bottom_n_symbols
    bake_in_minutes,    \* self.bake_in_minutes
    bake_out_minutes,   \* self.bake_out_minutes
    n_top_tickers,      \* self.n_top_tickers
    n_bottom_tickers,   \* self.n_bottom_tickers
    bypass,             \* self._bypass_update_window
    pc,                 \* "consuming": inside consume(); "raised": an exception left it
    emitted,            \* the producer sends of the last _consume call, in order
    topic_high,         \* the snapshot of the latest message on TOP_HIGH_EVENT
    topic_low,          \* the snapshot of the latest message on TOP_LOW_EVENT
    failures,           \* how many producer sends have raised so far
    obs,                \* what the last _consume call was given and did
    consumer,           \* the KafkaConsumer / AIOKafkaConsumer handed to the seeker
    seek                \* the call of set_offsets_by_time(_aiokafka): its position
                        \* and what it was given and did

vars == <<contracts, tickers, top_n_symbols, bottom_n_symbols, bake_in_minutes,
          bake_out_minutes, n_top_tickers, n_bottom_tickers, bypass, pc,
          emitted, topic_high, topic_low, failures, obs, consumer, seek>>

config == <<contracts, bake_in_minutes, bake_out_minutes, n_top_tickers,
            n_bottom_tickers, bypass>>

\* the state of the engine, which the seeker never touches
engine == <<tickers, top_n_symbols, bottom_n_symbols, pc, emitted, topic_high,
            topic_low, failures, obs>>

\* the keys of self.tickers
Tracked == {contracts[i] : i \in DOMAIN contracts}

\* the values of the consumed topic: a RawTicker message, or a payload
\* RawTicker.from_message cannot turn into a RawTicker (ok = FALSE)
BadMessage == [ok |-> FALSE, symbol |-> Untracked, last |-> NoneLast, time |-> 0]
Messages ==
    [ok : {TRUE}, symbol : Tracked \cup {Untracked},
     last : Prices \cup {NaN, NoneLast}, time : Times] \cup {BadMessage}

\* a price below, at and above the reference price
NearPrices == {RefPrice - 1, RefPrice, RefPrice + 1}

\* the messages of the feed of Spec: as Messages, with prices close to the
\* reference price
NearMessages ==
    [ok : {TRUE}, symbol : Tracked \cup {Untracked},
     last : NearPrices \cup {NaN, NoneLast}, time : Times] \cup {BadMessage}

\* the messages of the feed of SpecRank: priced events of tracked symbols,
\* with any price, all at time 0
RankMessages == [ok : {TRUE}, symbol : Tracked, last : Prices, time : {0}]

\* the messages of the feed of SpecWindow: priced events of tracked symbols
\* at any time of three consecutive days
WindowTimes == 0..MaxWindowTime
WindowMessages ==
    [ok : {TRUE}, symbol : Tracked, last : NearPrices, time : WindowTimes]

\* ------------------------------------------------------ utils.py

\* datetime2datestr(dt): the calendar date of dt
datetime2datestr(dt) == dt \div DayLen

\* nasdaq.is_session(date): every other day is a trading session
is_session(date) == date % 2 = 0

\* nasdaq.session_open(date), nasdaq.session_close(date)
session_open(date) == date * DayLen + OpenMinute
session_close(date) == date * DayLen + CloseMinute

\* get_market_open_close(dt): (None, None) when the date is no session
get_market_open_close(dt) ==
    LET date == datetime2datestr(dt) IN
    IF ~is_session(date)
    THEN [none |-> TRUE, open |-> 0, close |-> 0]
    ELSE [none |-> FALSE,
          open |-> session_open(date),
          close |-> session_close(date)]

\* ------------------------------------------- RealTimeTrading (pure)

\* inside_update_window with the close bound included (dt <= close)
inside_update_window_closed(dt) ==
    LET oc == get_market_open_close(dt) IN
    IF oc.none
    THEN FALSE
    ELSE dt >= oc.open + bake_in_minutes /\ dt <= oc.close - bake_out_minutes

\* inside_update_window(dt)
inside_update_window(dt) ==
    LET oc == get_market_open_close(dt) IN
    IF oc.none
    THEN FALSE
    ELSE LET open_after_bake_in == oc.open + bake_in_minutes
             close_before_bake_out == oc.close - bake_out_minutes
         IN  dt >= open_after_bake_in /\ dt < close_before_bake_out

\* list.sort(key=gap) is stable: x goes after every element with gap <= x.gap
RECURSIVE InsertByGap(_, _)
InsertByGap(s, x) ==
    IF s = <<>> THEN <<x>>
    ELSE IF Head(s).gap <= x.gap
         THEN <<Head(s)>> \o InsertByGap(Tail(s), x)
         ELSE <<x>> \o s

RECURSIVE SortByGap(_)
SortByGap(s) ==
    IF s = <<>> THEN <<>>
    ELSE InsertByGap(SortByGap(SubSeq(s, 1, Len(s) - 1)), s[Len(s)])

\* rank_tickers(): list(self.tickers.values()) sorted by gap, ascending
rank_tickers(tks) ==
    SortByGap([i \in DOMAIN contracts |->
                 [symbol |-> contracts[i], gap |-> tks[contracts[i]].gap]])

\* the slice s[:n], n >= 0
Take(s, n) == SubSeq(s, 1, IF n < Len(s) THEN n ELSE Len(s))

\* TopNSymbols.from_tickers(time, tickers): the (symbol, gap) pairs in the
\* order given; the time goes into the message sent, not into the comparison
from_tickers(time, ts) ==
    [isNone |-> FALSE,
     symbols |-> [i \in DOMAIN ts |-> <<ts[i].symbol, ts[i].gap>>]]

IsPositive(t) == t.gap > 0
IsNegative(t) == t.gap < 0

\* get_top_n_tickers(time, tickers, n)
get_top_n_tickers(time, ranked, n) ==
    from_tickers(time, Take(SelectSeq(ranked, IsPositive), n))

\* get_bottom_n_tickers taking the last n of the negative tickers (s[-n:])
get_bottom_n_tickers_last(time, ranked, n) ==
    LET s == SelectSeq(ranked, IsNegative) IN
    from_tickers(time, SubSeq(s, IF n < Len(s) THEN Len(s) - n + 1 ELSE 1, Len(s)))

\* get_bottom_n_tickers(time, tickers, n)
get_bottom_n_tickers(time, ranked, n) ==
    from_tickers(time, Take(SelectSeq(ranked, IsNegative), n))

\* TopNSymbols.__ne__: snapshots are compared by their (symbol, gap) sequence
SnapshotsDiffer(a, b) == a.symbols # b.symbols

\* "self.top_n_symbols is None or top_n_symbols != self.top_n_symbols"
ShouldPublish(stored, new) == stored.isNone \/ SnapshotsDiffer(new, stored)

\* the gap of a price: its deviation from the reference price
Gap(last) == last - RefPrice

\* IntradayTicker.update(raw_ticker): TRUE iff the gap changed; the fields
\* are overwritten only then
update(tk, raw) ==
    LET g == Gap(raw.last) IN
    IF g # tk.gap
    THEN [changed |-> TRUE, ticker |-> [last |-> raw.last, gap |-> g]]
    ELSE [changed |-> FALSE, ticker |-> tk]



\* ------------------------------------- utils.py (offsets by time)

\* the topics and the partitions of a topic; a TopicPartition is a pair
Topics == {"T1", "T2"}
PartitionIds == {0}
TopicPartitions == Topics \X PartitionIds

Stamps == 0..MaxStamp

\* partitions_for_topic(t) returning None: no metadata for the topic
NoParts == {-1}
\* offsets_for_times giving None for a partition: no event at or after
NoOffset == -1
\* start_time = None
NoStart == -1

\* the events of a partition: their timestamps, in offset order
Logs ==
    {l \in UNION {[1..n -> Stamps] : n \in 0..MaxLog} :
        \A i, j \in DOMAIN l : i < j => l[i] <= l[j]}

\* a consumer nothing was read from yet: every position is 0
Consumers ==
    [subscription : SUBSET Topics,
     partitions_for_topic : [Topics -> {NoParts, PartitionIds}],
     assignment : SUBSET TopicPartitions,
     log : [TopicPartitions -> Logs],
     position : [TopicPartitions -> {0}]]

\* the consumer of a run in which the seeker is not called
NoConsumer ==
    [subscription |-> {},
     partitions_for_topic |-> [t \in Topics |-> NoParts],
     assignment |-> {},
     log |-> [tp \in TopicPartitions |-> <<>>],
     position |-> [tp \in TopicPartitions |-> 0]]

NoSeek ==
    [pc |-> "start", variant |-> "none", start_time |-> NoStart,
     requested |-> {}, seeked |-> {}]

\* the midnight of the local day of now (start_time is None)
Midnight(now) == datetime2datestr(now) * DayLen

\* consumer.offsets_for_times: per partition the offset of the first event
\* whose timestamp is >= ts, None (NoOffset) when there is none
offsets_for_times(c, parts, ts) ==
    [tp \in parts |->
       LET l == c.log[tp] IN
       IF \E i \in DOMAIN l : l[i] >= ts
       THEN (CHOOSE i \in DOMAIN l :
               l[i] >= ts /\ \A j \in 1..(i - 1) : l[j] < ts) - 1
       ELSE NoOffset]

\* the orders mapping.items() can give the partitions in
Orders(parts) ==
    {o \in [1..Cardinality(parts) -> parts] :
        \A i, j \in DOMAIN o : i # j => o[i] # o[j]}

\* the loop over mapping.items(), from item i on: ts[0] raises TypeError on a
\* ts that is None, consumer.seek raises AssertionError on a partition that
\* is not assigned; either ends the loop and the call
RECURSIVE seek_each(_, _, _, _, _)
seek_each(c, mapping, order, i, seeked) ==
    IF i > Len(order)
    THEN [consumer |-> c, seeked |-> seeked, pc |-> "done"]
    ELSE LET tp == order[i] IN
         IF mapping[tp] = NoOffset \/ tp \notin c.assignment
         THEN [consumer |-> c, seeked |-> seeked, pc |-> "raised"]
         ELSE seek_each([c EXCEPT !.position[tp] = mapping[tp]], mapping,
                        order, i + 1, seeked \cup {tp})

\* the part the two seekers share: offsets_for_times, then the loop
Repositioned(variant, start_time, partitions) ==
    \E order \in Orders(partitions) :
      \E r \in {seek_each(consumer,
                          offsets_for_times(consumer, partitions, start_time),
                          order, 1, {})} :
        /\ consumer' = r.consumer
        /\ seek' = [pc |-> r.pc, variant |-> variant,
                    start_time |-> start_time, requested |-> partitions,
                    seeked |-> r.seeked]

\* set_offsets_by_time(consumer, start_time)
set_offsets_by_time ==
    /\ seek.pc = "start"
    /\ \E given \in Stamps \cup {MaxStamp + 1, NoStart}, now \in Stamps :
         LET start_time == IF given = NoStart THEN Midnight(now) ELSE given
             topics == consumer.subscription
             partitions ==
                 {tp \in TopicPartitions :
                    /\ tp[1] \in topics
                    /\ consumer.partitions_for_topic[tp[1]] # NoParts
                    /\ tp[2] \in consumer.partitions_for_topic[tp[1]]}
         IN  IF topics = {}
             THEN /\ seek' = [pc |-> "done", variant |-> "kafka",
                              start_time |-> start_time, requested |-> {},
                              seeked |-> {}]
                  /\ UNCHANGED consumer
             ELSE Repositioned("kafka", start_time, partitions)
    /\ UNCHANGED <<config, engine>>

\* set_offsets_by_time_aiokafka(consumer, start_time)
set_offsets_by_time_aiokafka ==
    /\ seek.pc = "start"
    /\ \E given \in Stamps \cup {MaxStamp + 1, NoStart}, now \in Stamps :
         LET start_time == IF given = NoStart THEN Midnight(now) ELSE given
             partitions == consumer.assignment
         IN  Repositioned("aiokafka", start_time, partitions)
    /\ UNCHANGED <<config, engine>>

\* --------------------------------------- RealTimeTrading (handlers)

\* the producer sends that can raise in one call: none, the top-side send,
\* or the bottom-side send
Faults == {"none", "top", "bottom"}

\* producer.send(topic, value=snapshot.to_message())
Sent(topic, snapshot, time) ==
    [topic |-> topic, symbols |-> snapshot.symbols, time |-> time]

\* the result of a call that returned or raised before ranking
Untouched(tks, raised, updated) ==
    [tickers |-> tks, top |-> top_n_symbols, bottom |-> bottom_n_symbols,
     emitted |-> <<>>, raised |-> raised, updated |-> updated,
     ranked |-> FALSE]

\* _check_top_symbols with the bottom side published whenever the top side is
_check_top_symbols_coupled(tks, time, fault) ==
    LET ranked == rank_tickers(tks)
        newTop == get_top_n_tickers(time, ranked, n_top_tickers)
        pubTop == ShouldPublish(top_n_symbols, newTop)
        top1 == IF pubTop THEN newTop ELSE top_n_symbols
        out1 == IF pubTop THEN <<Sent("top_high", top1, time)>> ELSE <<>>
        newBottom == get_bottom_n_tickers(time, ranked, n_bottom_tickers)
        pubBottom == pubTop \/ ShouldPublish(bottom_n_symbols, newBottom)
        bottom1 == IF pubBottom THEN newBottom ELSE bottom_n_symbols
        out2 == IF pubBottom THEN <<Sent("top_low", bottom1, time)>> ELSE <<>>
    IN  IF pubTop /\ fault = "top"
        THEN [tickers |-> tks, top |-> top1, bottom |-> bottom_n_symbols,
              emitted |-> <<>>, raised |-> "send", updated |-> TRUE,
              ranked |-> TRUE]
        ELSE IF pubBottom /\ fault = "bottom"
        THEN [tickers |-> tks, top |-> top1, bottom |-> bottom1,
              emitted |-> out1, raised |-> "send", updated |-> TRUE,
              ranked |-> TRUE]
        ELSE [tickers |-> tks, top |-> top1, bottom |-> bottom1,
              emitted |-> out1 \o out2, raised |-> "no", updated |-> TRUE,
              ranked |-> TRUE]

\* _check_top_symbols with the bottom side decided and sent before the top side
_check_top_symbols_bottom_first(tks, time, fault) ==
    LET ranked == rank_tickers(tks)
        newBottom == get_bottom_n_tickers(time, ranked, n_bottom_tickers)
        pubBottom == ShouldPublish(bottom_n_symbols, newBottom)
        bottom1 == IF pubBottom THEN newBottom ELSE bottom_n_symbols
        out2 == IF pubBottom THEN <<Sent("top_low", bottom1, time)>> ELSE <<>>
        newTop == get_top_n_tickers(time, ranked, n_top_tickers)
        pubTop == ShouldPublish(top_n_symbols, newTop)
        top1 == IF pubTop THEN newTop ELSE top_n_symbols
        out1 == IF pubTop THEN <<Sent("top_high", top1, time)>> ELSE <<>>
    IN  IF pubBottom /\ fault = "bottom"
        THEN [tickers |-> tks, top |-> top_n_symbols, bottom |-> bottom1,
              emitted |-> <<>>, raised |-> "send", updated |-> TRUE,
              ranked |-> TRUE]
        ELSE IF pubTop /\ fault = "top"
        THEN [tickers |-> tks, top |-> top1, bottom |-> bottom1,
              emitted |-> out2, raised |-> "send", updated |-> TRUE,
              ranked |-> TRUE]
        ELSE [tickers |-> tks, top |-> top1, bottom |-> bottom1,
              emitted |-> out2 \o out1, raised |-> "no", updated |-> TRUE,
              ranked |-> TRUE]

\* _check_top_symbols(time), called from _consume with the tickers already
\* updated; fault names the send that raises, should it be called
_check_top_symbols(tks, time, fault) ==
    LET ranked == rank_tickers(tks)
        newTop == get_top_n_tickers(time, ranked, n_top_tickers)
        pubTop == ShouldPublish(top_n_symbols, newTop)
        top1 == IF pubTop THEN newTop ELSE top_n_symbols
        out1 == IF pubTop THEN <<Sent("top_high", top1, time)>> ELSE <<>>
        newBottom == get_bottom_n_tickers(time, ranked, n_bottom_tickers)
        pubBottom == ShouldPublish(bottom_n_symbols, newBottom)
        bottom1 == IF pubBottom THEN newBottom ELSE bottom_n_symbols
        out2 == IF pubBottom THEN <<Sent("top_low", bottom1, time)>> ELSE <<>>
    IN  IF pubTop /\ fault = "top"
        THEN \* the send raises after self.top_n_symbols was assigned
             [tickers |-> tks, top |-> top1, bottom |-> bottom_n_symbols,
              emitted |-> <<>>, raised |-> "send", updated |-> TRUE,
              ranked |-> TRUE]
        ELSE IF pubBottom /\ fault = "bottom"
        THEN \* the send raises after self.bottom_n_symbols was assigned
             [tickers |-> tks, top |-> top1, bottom |-> bottom1,
              emitted |-> out1, raised |-> "send", updated |-> TRUE,
              ranked |-> TRUE]
        ELSE [tickers |-> tks, top |-> top1, bottom |-> bottom1,
              emitted |-> out1 \o out2, raised |-> "no", updated |-> TRUE,
              ranked |-> TRUE]

\* the window filter never rejecting
NeverOutside(raw) == FALSE

\* the window filter without the bypass flag
OutsideWindowNoBypass(raw) == ~inside_update_window(raw.time)

\* "not self._bypass_update_window and not self.inside_update_window(time)"
OutsideWindow(raw) == ~bypass /\ ~inside_update_window(raw.time)

\* the NaN filter never rejecting
NeverNan(raw) == FALSE

\* math.isnan(raw_ticker.last); it raises TypeError on a last that is None
IsNan(raw) == raw.last = NaN
IsNanRaises(raw) == raw.last = NoneLast

\* "self.tickers.get(raw_ticker.symbol) is None"
NotFound(tks, raw) == raw.symbol \notin DOMAIN tks

\* the lookup self.tickers[symbol], which raises KeyError
NotFoundRaises(raw) == "data"

\* the symbol was not found: a warning is logged and the call returns
NotFoundOutcome(raw) == "no"

\* the ranking recomputed after every update, changed or not
RanksAlways(updated) == TRUE

\* the ranking recomputed when the update reports no change
RanksUnlessChanged(updated) == ~updated

\* "if updated:" (the call of _check_top_symbols)
RanksAfter(updated) == updated

\* _consume creating the ticker of a symbol it does not find
\* (self.tickers.setdefault) instead of returning
_consume_creating(m, fault) ==
    IF ~m.ok
    THEN Untouched(tickers, "data", FALSE)
    ELSE IF OutsideWindow(m)
    THEN Untouched(tickers, "no", FALSE)
    ELSE IF IsNanRaises(m)
    THEN Untouched(tickers, "data", FALSE)
    ELSE IF IsNan(m)
    THEN Untouched(tickers, "no", FALSE)
    ELSE LET found == IF NotFound(tickers, m)
                      THEN [s \in DOMAIN tickers \cup {m.symbol} |->
                              IF s \in DOMAIN tickers THEN tickers[s]
                              ELSE [last |-> NaN, gap |-> 0]]
                      ELSE tickers
             u == update(found[m.symbol], m)
             tks == [found EXCEPT ![m.symbol] = u.ticker]
         IN  IF RanksAfter(u.changed)
             THEN [_check_top_symbols(tks, m.time, fault)
                     EXCEPT !.updated = u.changed]
             ELSE Untouched(tks, "no", u.changed)

\* _consume(message)
_consume(m, fault) ==
    IF ~m.ok
    THEN \* RawTicker.from_message raises
         Untouched(tickers, "data", FALSE)
    ELSE IF OutsideWindow(m)
    THEN Untouched(tickers, "no", FALSE)
    ELSE IF IsNanRaises(m)
    THEN Untouched(tickers, "data", FALSE)
    ELSE IF IsNan(m)
    THEN Untouched(tickers, "no", FALSE)
    ELSE IF NotFound(tickers, m)
    THEN Untouched(tickers, NotFoundOutcome(m), FALSE)
    ELSE LET u == update(tickers[m.symbol], m)
             tks == [tickers EXCEPT ![m.symbol] = u.ticker]
         IN  IF RanksAfter(u.changed)
             THEN [_check_top_symbols(tks, m.time, fault)
                     EXCEPT !.updated = u.changed]
             ELSE Untouched(tks, "no", u.changed)

\* the snapshot of the latest message of a topic after the sends of one call
LatestOn(topic, before, sends) ==
    LET mine == SelectSeq(sends, LAMBDA e : e.topic = topic) IN
    IF mine = <<>>
    THEN before
    ELSE [isNone |-> FALSE, symbols |-> mine[Len(mine)].symbols]

\* a well-formed event that passes the three filters of the claim: priced,
\* tracked, and inside the window or under the bypass flag
ReachesUpdate(m) ==
    /\ m.ok
    /\ m.last \in Prices
    /\ m.symbol \in Tracked
    /\ bypass \/ inside_update_window(m.time)

\* the symbol and price of an event; no event: the untracked symbol, NaN
Key(m) == [symbol |-> m.symbol, last |-> m.last]
NoKey == [symbol |-> Untracked, last |-> NaN]

\* what is recorded of one delivery: the kind of message it was, and what
\* the call did with it
Observe(m, r) ==
    [kind     |-> IF ~m.ok THEN "malformed"
                  ELSE IF m.last = NoneLast THEN "nolast"
                  ELSE IF m.last = NaN THEN "nan"
                  ELSE "float",
     inside   |-> m.ok /\ inside_update_window(m.time),
     session  |-> m.ok /\ is_session(datetime2datestr(m.time)),
     tracked  |-> m.ok /\ m.symbol \in Tracked,
     accepted |-> IF ReachesUpdate(m) THEN Key(m) ELSE NoKey,
     repeat   |-> ReachesUpdate(m) /\ obs.accepted = Key(m),
     updated  |-> r.updated,
     ranked   |-> r.ranked,
     raised   |-> r.raised]

NoObs ==
    [kind |-> "none", inside |-> FALSE, session |-> FALSE, tracked |-> FALSE,
     accepted |-> NoKey, repeat |-> FALSE, updated |-> FALSE,
     ranked |-> FALSE, raised |-> "no"]

\* --------------------------------------------------- specification

\* __init__ with the given arguments: one ticker per contract, with no
\* price yet and a gap of 0; both snapshots None
Construct(cs, bakes, ns, flags) ==
    /\ contracts = cs
    /\ tickers = [s \in {cs[i] : i \in DOMAIN cs} |-> [last |-> NaN, gap |-> 0]]
    /\ top_n_symbols = None
    /\ bottom_n_symbols = None
    /\ bake_in_minutes \in bakes
    /\ bake_out_minutes \in bakes
    /\ n_top_tickers \in ns
    /\ n_bottom_tickers \in ns
    /\ bypass \in flags
    /\ pc = "consuming"
    /\ emitted = <<>>
    /\ topic_high = None
    /\ topic_low = None
    /\ failures = 0
    /\ obs = NoObs

\* the seeker is not called in this run
NotSeeking == consumer = NoConsumer /\ seek = NoSeek

\* consume() catching what _consume raises, logging it and going on
Swallowed(raised) == FALSE

\* "self._consume(msg)" inside the for loop, with no try around it: whatever
\* _consume raises leaves the loop and consume()
Surfaced(raised) == raised # "no"

\* consume(): the next message of the consumer is handed to _consume
ConsumeFrom(feed, faults) ==
    /\ pc = "consuming"
    /\ \E m \in feed :
       \E r \in {_consume(m, f) :
                   f \in IF failures < MaxFaults THEN faults ELSE {"none"}} :
         /\ tickers' = r.tickers
         /\ top_n_symbols' = r.top
         /\ bottom_n_symbols' = r.bottom
         /\ emitted' = r.emitted
         /\ topic_high' = LatestOn("top_high", topic_high, r.emitted)
         /\ topic_low' = LatestOn("top_low", topic_low, r.emitted)
         /\ pc' = IF Surfaced(r.raised) THEN "raised" ELSE "consuming"
         /\ failures' = IF r.raised = "send" THEN failures + 1 ELSE failures
         /\ obs' = Observe(m, r)
    /\ UNCHANGED <<config, consumer, seek>>

\* any message with a price close to the reference, any send outcome
Consume == ConsumeFrom(NearMessages, Faults)

\* the caller catches the exception and calls consume() again
Reenter ==
    /\ pc = "raised"
    /\ pc' = "consuming"
    /\ emitted' = <<>>
    /\ obs' = [NoObs EXCEPT !.accepted = obs.accepted]
    /\ UNCHANGED <<tickers, top_n_symbols, bottom_n_symbols, topic_high,
                   topic_low, failures, config, consumer, seek>>

\* two contracts, one snapshot entry per side, bake-in and bake-out of one
\* minute, with and without the bypass flag
Init == Construct(<<"A", "B">>, {1}, {1}, BOOLEAN) /\ NotSeeking

Next == Consume \/ Reenter

Spec == Init /\ [][Next]_vars

\* the ranking alone: three contracts, every n, every price, no filter
\* (bypass set) and no failing send
ConsumeRank == ConsumeFrom(RankMessages, {"none"})
InitRank == Construct(<<"A", "B", "C">>, {0}, 1..MaxN, {TRUE}) /\ NotSeeking
SpecRank == InitRank /\ [][ConsumeRank]_vars

\* the window alone: one contract, every bake-in and bake-out, events at
\* every time of three days, no bypass and no failing send
ConsumeWindow == ConsumeFrom(WindowMessages, {"none"})
InitWindow == Construct(<<"A">>, 0..MaxBake, {1}, {FALSE}) /\ NotSeeking
SpecWindow == InitWindow /\ [][ConsumeWindow]_vars

\* the seeker alone: any consumer of two topics, either seeker called once
InitSeek ==
    /\ Construct(<<"A">>, {0}, {1}, {TRUE})
    /\ consumer \in Consumers
    /\ seek = NoSeek
NextSeek == set_offsets_by_time \/ set_offsets_by_time_aiokafka
SpecSeek == InitSeek /\ [][NextSeek]_vars

\* the consume loop as scheduled: as long as consume() runs, the for loop
\* goes on to the next message; nothing makes the caller call it again
SpecLive == Init /\ [][Next]_vars /\ WF_vars(Consume)

\* ------------------------------------------------------------ claims

\* the (symbol, gap) pairs the ranking of these tickers gives each side
TopOf(tks) == get_top_n_tickers(0, rank_tickers(tks), n_top_tickers).symbols
BottomOf(tks) ==
    get_bottom_n_tickers(0, rank_tickers(tks), n_bottom_tickers).symbols

\* the sends of one call on one topic
EventsOn(topic, sends) == SelectSeq(sends, LAMBDA e : e.topic = topic)

\* a step of Consume: the only action enabled inside consume()
Delivering == pc = "consuming"

\* nothing of the engine changed and nothing was sent
Discarded ==
    /\ tickers' = tickers
    /\ top_n_symbols' = top_n_symbols
    /\ bottom_n_symbols' = bottom_n_symbols
    /\ emitted' = <<>>

\* seq is the n highest positive gaps of the tickers, highest first
IsTopRanking(seq) ==
    LET positive == {s \in Tracked : tickers[s].gap > 0}
        listed == {seq[i][1] : i \in DOMAIN seq}
    IN  /\ Len(seq) = IF n_top_tickers < Cardinality(positive)
                       THEN n_top_tickers ELSE Cardinality(positive)
        /\ \A i \in DOMAIN seq :
             seq[i][1] \in positive /\ seq[i][2] = tickers[seq[i][1]].gap
        /\ \A i, j \in DOMAIN seq :
             i < j => seq[i][1] # seq[j][1] /\ seq[i][2] >= seq[j][2]
        /\ \A s \in positive \ listed : \A i \in DOMAIN seq :
             tickers[s].gap <= seq[i][2]

\* C1: after every recompute of the ranking the top snapshot is the tracked
\* symbols with gap > 0, sorted by gap descending, cut to the first n_top.
C1_TopIsHighestDescending == obs.ranked => IsTopRanking(top_n_symbols.symbols)

\* the publish decision of one side, as the claim states it
DecidedAsClaimed(stored, new, storedAfter, events) ==
    IF stored.isNone \/ new # stored.symbols
    THEN storedAfter = [isNone |-> FALSE, symbols |-> new] /\ Len(events) = 1
    ELSE storedAfter = stored /\ Len(events) = 0

\* C2: in the publish decision, per side: a newly computed snapshot that
\* differs from the stored one replaces it and exactly one event is sent;
\* an equal one sends nothing and replaces nothing; so no event of a side
\* carries the same snapshot as the event before it on that side.
C2_PublishIffChanged ==
    [][(Delivering /\ obs'.ranked) =>
         /\ DecidedAsClaimed(top_n_symbols, TopOf(tickers'), top_n_symbols',
                             EventsOn("top_high", emitted'))
         /\ DecidedAsClaimed(bottom_n_symbols, BottomOf(tickers'),
                             bottom_n_symbols', EventsOn("top_low", emitted'))
         /\ \A i \in DOMAIN emitted' :
              /\ emitted'[i].topic = "top_high" =>
                   topic_high.isNone \/ emitted'[i].symbols # topic_high.symbols
              /\ emitted'[i].topic = "top_low" =>
                   topic_low.isNone \/ emitted'[i].symbols # topic_low.symbols
      ]_vars

\* C3: the same valid event delivered twice in a row: the second delivery's
\* update reports no change, the ranking is not recomputed and nothing is
\* sent.  (Stated for a second delivery with the same symbol and price.)
C3_RepeatIsSilent ==
    obs.repeat =>
        /\ ~obs.updated
        /\ ~obs.ranked
        /\ emitted = <<>>
        /\ obs.raised = "no"

\* a second delivery of the event just accepted has been consumed, its
\* price being the one the first delivery stored
C3_Witness ==
    /\ obs.repeat
    /\ obs.kind = "float"
    /\ pc = "consuming"
    /\ tickers[obs.accepted.symbol].last = obs.accepted.last
    /\ tickers[obs.accepted.symbol].gap # 0

C5_NoMessageRaises ==
    obs.kind \in {"malformed", "nolast", "nan", "float"} => obs.raised # "data"

\* the event was taken in whole: the symbol state changed and each side
\* was decided as in C2
FullyAccepted ==
    /\ tickers' # tickers
    /\ DecidedAsClaimed(top_n_symbols, TopOf(tickers'), top_n_symbols',
                        EventsOn("top_high", emitted'))
    /\ DecidedAsClaimed(bottom_n_symbols, BottomOf(tickers'),
                        bottom_n_symbols', EventsOn("top_low", emitted'))

\* C6: after _consume returns or fails, the event was either fully accepted
\* or fully discarded, also when a send fails.
C6_AllOrNothing == [][Delivering => Discarded \/ FullyAccepted]_vars

\* C7: an event with a NaN price changes no symbol state and no stored
\* snapshot and sends nothing, whatever the bypass flag, symbol and time.
C7_NanChangesNothing ==
    [][(Delivering /\ obs'.kind = "nan") =>
         Discarded /\ ~obs'.updated /\ pc' = "consuming"]_vars

\* a NaN event of a tracked symbol that passed the window filter
C7_Witness ==
    /\ obs.kind = "nan"
    /\ obs.tracked
    /\ bypass \/ obs.inside
    /\ pc = "consuming"

\* C8: without the bypass flag, an event whose time is outside the window
\* changes no symbol state and no stored snapshot and sends nothing.
C8_OutsideChangesNothing ==
    [][(Delivering /\ ~bypass /\ obs'.kind \in {"float", "nan", "nolast"}
          /\ ~obs'.inside) =>
         Discarded /\ ~obs'.updated /\ pc' = "consuming"]_vars

\* a priced event of a tracked symbol outside the window, bypass off
C8_Witness ==
    /\ ~bypass
    /\ obs.kind = "float"
    /\ obs.tracked
    /\ ~obs.inside
    /\ pc = "consuming"

\* C9: an event whose symbol is no key of the tracked mapping raises no
\* error, creates no symbol state, changes none and sends nothing.
C9_UntrackedChangesNothing ==
    [][(Delivering /\ obs'.kind \in {"float", "nan"} /\ ~obs'.tracked) =>
         /\ Discarded
         /\ DOMAIN tickers' = DOMAIN tickers
         /\ pc' = "consuming"]_vars

\* a priced event of an untracked symbol that passed the window filter
C9_Witness ==
    /\ obs.kind = "float"
    /\ ~obs.tracked
    /\ bypass \/ obs.inside
    /\ pc = "consuming"

\* t is inside [open + bake-in, close - bake-out) of a session of its date
InQualifiedWindow(t) ==
    \E date \in 0..(MaxWindowTime \div DayLen) :
        /\ date * DayLen <= t /\ t < (date + 1) * DayLen
        /\ is_session(date)
        /\ session_open(date) + bake_in_minutes <= t
        /\ t < session_close(date) - bake_out_minutes

\* C10: inside_update_window(t) is true iff the calendar has a session for
\* t's date and open + bake_in <= t < close - bake_out; on a date with no
\* session it is false whatever the bake-in and bake-out; and only an event
\* inside the window reaches the update.
C10_WindowIsHalfOpen ==
    /\ \A t \in WindowTimes : inside_update_window(t) <=> InQualifiedWindow(t)
    /\ \A t \in WindowTimes :
         ~is_session(datetime2datestr(t)) => ~inside_update_window(t)
    /\ obs.updated => obs.inside

\* an event inside the window was taken with both bakes set, and the last
\* minute before close - bake-out is inside while close - bake-out is not
C10_Witness ==
    /\ bake_in_minutes = 1
    /\ bake_out_minutes = 1
    /\ obs.kind = "float"
    /\ obs.inside
    /\ obs.updated
    /\ inside_update_window(session_close(0) - bake_out_minutes - 1)
    /\ ~inside_update_window(session_close(0) - bake_out_minutes)

\* seq is the n lowest negative gaps of the tickers, lowest first
IsBottomRanking(seq) ==
    LET negative == {s \in Tracked : tickers[s].gap < 0}
        listed == {seq[i][1] : i \in DOMAIN seq}
    IN  /\ Len(seq) = IF n_bottom_tickers < Cardinality(negative)
                       THEN n_bottom_tickers ELSE Cardinality(negative)
        /\ \A i \in DOMAIN seq :
             seq[i][1] \in negative /\ seq[i][2] = tickers[seq[i][1]].gap
        /\ \A i, j \in DOMAIN seq :
             i < j => seq[i][1] # seq[j][1] /\ seq[i][2] <= seq[j][2]
        /\ \A s \in negative \ listed : \A i \in DOMAIN seq :
             tickers[s].gap >= seq[i][2]

\* C11: after every recompute of the ranking the bottom snapshot is the
\* tracked symbols with gap < 0, sorted by gap ascending (most negative
\* first), cut to the first n_bottom.
C11_BottomIsLowestAscending ==
    obs.ranked => IsBottomRanking(bottom_n_symbols.symbols)

\* more symbols have a negative gap than the bottom snapshot takes, with
\* different gaps, and the snapshot was recomputed
C11_Witness ==
    /\ obs.ranked
    /\ Cardinality({s \in Tracked : tickers[s].gap < 0}) > n_bottom_tickers
    /\ \E s, t \in Tracked :
         tickers[s].gap < tickers[t].gap /\ tickers[t].gap < 0
    /\ Len(bottom_n_symbols.symbols) = n_bottom_tickers

\* the partition holds an event at or after the timestamp
HasEventFrom(tp, ts) == \E i \in DOMAIN consumer.log[tp] : consumer.log[tp][i] >= ts

\* the cursor of the partition is at the first event at or after the timestamp
AtFirstEventFrom(tp, ts) ==
    LET l == consumer.log[tp]
        at == consumer.position[tp] + 1
    IN  /\ at \in DOMAIN l
        /\ l[at] >= ts
        /\ \A j \in 1..(at - 1) : l[j] < ts

\* C12: after the seeker was called, every partition it was called for that
\* holds an event at or after the timestamp has its cursor at the first such
\* event; a partition with no such event is not seeked, raises no error and
\* keeps no other partition from being repositioned.
C12_SeeksEveryPartition ==
    seek.pc # "start" =>
        /\ seek.pc = "done"
        /\ \A tp \in seek.requested :
             IF HasEventFrom(tp, seek.start_time)
             THEN tp \in seek.seeked /\ AtFirstEventFrom(tp, seek.start_time)
             ELSE tp \notin seek.seeked

\* C13: a producer send raising inside _check_top_symbols is neither
\* swallowed nor retried: it leaves _consume and consume(), so the loop stops
\* on it, with no further send of that call.
C13_SendFailureSurfaces ==
    obs.raised = "send" =>
        /\ pc = "raised"
        /\ Len(emitted) <= 1
        /\ EventsOn("top_low", emitted) = <<>>

\* a send raised on an accepted, changed event and consume() was left
C13_Witness ==
    /\ obs.raised = "send"
    /\ obs.kind = "float"
    /\ obs.updated
    /\ failures = 1
    /\ pc = "raised"

\* C14: the events one input event emits are the top event, then the bottom
\* event: never a bottom event before a top event, and at most one of each.
C14_TopBeforeBottom ==
    /\ Len(EventsOn("top_high", emitted)) <= 1
    /\ Len(EventsOn("top_low", emitted)) <= 1
    /\ \A i, j \in DOMAIN emitted :
         (emitted[i].topic = "top_high" /\ emitted[j].topic = "top_low") => i < j

\* one event changed both stored sides (no send has failed and every symbol
\* has left gap 0, so this was not the first ranking) and both were sent
C14_Witness ==
    /\ Len(emitted) = 2
    /\ emitted[1].topic = "top_high"
    /\ emitted[2].topic = "top_low"
    /\ failures = 0
    /\ \A s \in Tracked : tickers[s].gap # 0

\* C15: a failed publish never blocks ingestion: after a send has raised, the
\* loop is eventually consuming again, so that the events delivered after it
\* are consumed.
C15_IngestionNeverBlocked == (obs.raised = "send") ~> (pc = "consuming")

\* C16: when update returns false for an event that passed the filters,
\* _consume stops: the ranking is not recomputed, both stored snapshots stay
\* and nothing is sent; and a call recomputes the ranking exactly when its
\* update returned true, so that over any run the recomputes are as many as
\* the updates that returned true.
C16_NoChangeNoRanking ==
    [][Delivering =>
         /\ obs'.ranked <=> obs'.updated
         /\ (obs'.accepted # NoKey /\ ~obs'.updated) =>
              /\ top_n_symbols' = top_n_symbols
              /\ bottom_n_symbols' = bottom_n_symbols
              /\ emitted' = <<>>
              /\ pc' = "consuming"
      ]_vars

\* an event that passed the filters, not a repeat of the one before it, found
\* the gap of its symbol unchanged, with both snapshots stored
C16_Witness ==
    /\ obs.kind = "float"
    /\ obs.accepted # NoKey
    /\ ~obs.repeat
    /\ ~obs.updated
    /\ ~top_n_symbols.isNone
    /\ ~bottom_n_symbols.isNone
    /\ tickers[obs.accepted.symbol].gap # 0

\* C17: with the bypass flag set, every event with a float price and a
\* tracked symbol reaches the update, whatever its time: after the call the
\* gap of its symbol is the gap of its price, and the update reported a
\* change exactly when the gap before was another.
C17_BypassReachesUpdate ==
    [][(Delivering /\ bypass /\ obs'.kind = "float" /\ obs'.tracked) =>
         /\ obs'.accepted # NoKey
         /\ tickers'[obs'.accepted.symbol].gap = Gap(obs'.accepted.last)
         /\ obs'.updated <=>
              tickers[obs'.accepted.symbol].gap # Gap(obs'.accepted.last)
         /\ obs'.raised # "data"
      ]_vars

\* under the bypass flag an event on a date with no session changed its symbol
C17_Witness ==
    /\ bypass
    /\ obs.kind = "float"
    /\ obs.tracked
    /\ ~obs.session
    /\ ~obs.inside
    /\ obs.updated

\* the symbols of a snapshot
SymbolsOf(snap) == {snap.symbols[i][1] : i \in DOMAIN snap.symbols}

\* at most n entries, every gap on the side sign says (1: > 0, -1: < 0), and
\* no symbol twice
WellFormed(snap, n, sign) ==
    /\ Len(snap.symbols) <= n
    /\ \A i \in DOMAIN snap.symbols : snap.symbols[i][2] * sign > 0
    /\ \A i, j \in DOMAIN snap.symbols :
         i # j => snap.symbols[i][1] # snap.symbols[j][1]

\* C18: every stored and every published snapshot: the top one has at most
\* n_top entries, all with gap > 0, the bottom one at most n_bottom, all with
\* gap < 0; no symbol twice in one, no symbol in both the top and the bottom
\* one, and no symbol whose gap is 0 in either stored one.
C18_SnapshotsWellFormed ==
    /\ WellFormed(top_n_symbols, n_top_tickers, 1)
    /\ WellFormed(topic_high, n_top_tickers, 1)
    /\ WellFormed(bottom_n_symbols, n_bottom_tickers, -1)
    /\ WellFormed(topic_low, n_bottom_tickers, -1)
    /\ SymbolsOf(top_n_symbols) \cap SymbolsOf(bottom_n_symbols) = {}
    /\ SymbolsOf(topic_high) \cap SymbolsOf(topic_low) = {}
    /\ \A s \in Tracked :
         tickers[s].gap = 0 =>
           s \notin SymbolsOf(top_n_symbols) \cup SymbolsOf(bottom_n_symbols)

\* C19: no step after construction adds or removes a key of the tickers
\* mapping or changes bake_in_minutes, bake_out_minutes, n_top_tickers,
\* n_bottom_tickers or the bypass flag.
C19_UniverseAndConfigFixed ==
    [][/\ DOMAIN tickers' = DOMAIN tickers
       /\ DOMAIN tickers' = Tracked
       /\ bake_in_minutes' = bake_in_minutes
       /\ bake_out_minutes' = bake_out_minutes
       /\ n_top_tickers' = n_top_tickers
       /\ n_bottom_tickers' = n_bottom_tickers
       /\ bypass' = bypass
      ]_vars

\* after an accepted event and a failing send, consume() was entered again
\* and an event of an untracked symbol got to the lookup
C19_Witness ==
    /\ failures = 1
    /\ pc = "consuming"
    /\ obs.kind = "float"
    /\ ~obs.tracked
    /\ bypass \/ obs.inside
    /\ \E s \in Tracked : tickers[s].gap # 0

\* C20: between events (consume() waiting for the next message), each stored
\* snapshot is the snapshot of the latest event emitted on its side, and is
\* unset iff none was emitted; also after a send failed and consume() was
\* entered again.
C20_StoredIsLastEmitted ==
    pc = "consuming" =>
        /\ top_n_symbols = topic_high
        /\ bottom_n_symbols = topic_low

=============================================================================
